---- MODULE Spec2Model ----
(***************************************************************************)
(* Model of the online/offline correlator of the grammar-constrained       *)
(* decoding tracer: the rejection log as an external writer leaves it on   *)
(* disk, the tail monitor (RejectionLogMonitor.get_events_for_task), the   *)
(* forwarding proxy (proxy_request) and the two correlators (merge_logs,   *)
(* merge_response_with_rejections).                                        *)
(*                                                                         *)
(* The log file is a sequence of lexical tokens.  json.loads, the '-inf'   *)
(* substitution and the closing-bracket repair are computed on that        *)
(* sequence the way the Python code computes them on the text.             *)
(*                                                                         *)
(* The trace tools (GrammarTraceParser, GenerationTrace, TraceExporter)    *)
(* are modelled on parsed trace documents.  A supplied probability is a    *)
(* number of tenths, exp() a number of ten-thousandths, and a recovered    *)
(* probability the fraction <<exp_val, sum_exp>>.                          *)
(***************************************************************************)
EXTENDS Integers, Sequences, FiniteSets, TLC

\* ------------------------------------------------------------------ bounds
MaxTask == 2        \* task ids the upstream server hands out: 1..MaxTask
MaxEntries == 2     \* entries the external writer puts in the log
MaxTimeout == 2     \* largest timeout of a monitor call, in poll intervals
MaxTokens == 2      \* positions in an API document's logprobs content
MaxTokenId == 2     \* token ids in an API document: 1..MaxTokenId
MaxStep == 2        \* steps in the entries handed to a correlator: 0..MaxStep
MaxEvents == 2      \* entries in a rejection log handed to a correlator
MaxWorkers == 1     \* request threads of the proxy: 1..MaxWorkers
MaxStamp == 1       \* seconds of the wall clock seen by the proxy: 1..MaxStamp
MaxTraceEvents == 3 \* raw events of a trace document made of short snapshots
MaxCandidates == 3  \* candidates (before plus after) of one full snapshot
MaxTopK == 2        \* largest top_k asked of the structured export

Tasks == 1 .. MaxTask
Workers == 1 .. MaxWorkers
Stamps == 1 .. MaxStamp
TimeoutValues == -1 .. MaxTimeout
Logits == {"num", "-inf"}

VARIABLES
    file,       \* the rejection log on disk: [exists, content]
    mon_pc,     \* get_events_for_task: idle, loop, poll, sleep, done, raised
    task_id,    \* its argument
    timeout,    \* its argument, in poll intervals of 0.1 s
    elapsed,    \* time.time() - start_time, in poll intervals
    events,     \* its local variable
    result,     \* the list it returned
    debug_response,     \* merge_logs / merge_response_with_rejections: the
                        \* API document
    rejection_log,      \* the parsed rejection log
    combined,           \* what merge_logs returned
    combined_online,    \* what merge_response_with_rejections returned
    save_combined,      \* ProxyConfig.save_combined
    monitor,            \* ProxyConfig.monitor is set
    outdir,             \* ProxyConfig.output_dir: stamp -> document written
    next_task,          \* the upstream server's next task id
    pc,                 \* proxy_request per worker: idle, upstream, collect,
                        \* done
    request,            \* the inbound request
    task,               \* the upstream task serving it, 0 when none
    upstream,           \* resp, the upstream response
    outcome,            \* what proxy_request did and returned
    raw_data,           \* parse_trace_file: the loaded trace document
    trace,              \* the GenerationTrace
    trace_pc,           \* idle, loaded, parsed, done, exit
    top_k,              \* export_structured_json's argument
    step_summary,       \* what get_step_summary returned
    structured_data,    \* what export_structured_json returned
    dashboard_data,     \* what export_for_dashboard wrote
    high_impact,        \* what get_high_impact_steps returned
    warnings            \* what validate_trace returned

fileVars == <<file>>
monVars == <<mon_pc, task_id, timeout, elapsed, events, result>>
mergeVars == <<debug_response, rejection_log, combined, combined_online>>
configVars == <<save_combined, monitor>>
proxyVars == <<outdir, next_task, pc, request, task, upstream, outcome>>
traceVars == <<raw_data, trace, trace_pc, top_k, step_summary,
               structured_data, dashboard_data, high_impact, warnings>>
vars == <<file, mon_pc, task_id, timeout, elapsed, events, result,
          debug_response, rejection_log, combined, combined_online,
          save_combined, monitor, outdir, next_task, pc, request, task,
          upstream, outcome, raw_data, trace, trace_pc, top_k,
          step_summary, structured_data, dashboard_data, high_impact,
          warnings>>

\* ------------------------------------------------------- the log's tokens
\* '{ "log_version": ..., "timestamp": ..., "events": [' completely written
HDR == [k |-> "hdr"]
\* a header the writer has only partly written
HPART == [k |-> "hpart"]
\* one completely written entry object; logit "-inf" is the literal sentinel
Entry(t, s, v) == [k |-> "entry", task_id |-> t, step |-> s, logit |-> v]
\* an entry object the writer has only partly written
PART == [k |-> "part"]
COMMA == [k |-> "comma"]
WS == [k |-> "ws"]
RBRACK == [k |-> "rbrack"]
RBRACE == [k |-> "rbrace"]
\* a whole document that is valid JSON but not an object, such as []
NONOBJ == [k |-> "value"]

NoFile == [exists |-> FALSE, content |-> <<>>]
OnDisk(c) == [exists |-> TRUE, content |-> c]

Last(s) == s[Len(s)]
Front(s) == SubSeq(s, 1, Len(s) - 1)
IsWs(t) == t.k = "ws"
NotWs(t) == t.k # "ws"
IsEntry(t) == t.k = "entry"

\* ---------------------------------------------------------- text handling
\* content.replace('-inf', 'null')
ReplaceInf(content) ==
    [i \in 1 .. Len(content) |->
        IF IsEntry(content[i]) /\ content[i].logit = "-inf"
        THEN [content[i] EXCEPT !.logit = "null"]
        ELSE content[i]]

RECURSIVE RStrip(_)
\* str.rstrip(): trailing whitespace removed
RStrip(content) ==
    IF content # <<>> /\ IsWs(Last(content))
    THEN RStrip(Front(content))
    ELSE content

RECURSIVE RStripComma(_)
\* str.rstrip(','): trailing commas removed
RStripComma(content) ==
    IF content # <<>> /\ Last(content) = COMMA
    THEN RStripComma(Front(content))
    ELSE content

\* mutant: the separator is left in place
ContentFixedKeepsComma(content) ==
    RStrip(content) \o <<WS, RBRACK, WS, RBRACE>>

RECURSIVE StripTorn(_)
StripTorn(content) ==
    IF content # <<>> /\ Last(content).k \in {"ws", "comma", "part"}
    THEN StripTorn(Front(content))
    ELSE content

\* mutant: a partly written entry is stripped as well
ContentFixedStripsTorn(content) ==
    StripTorn(content) \o <<WS, RBRACK, WS, RBRACE>>

\* content.rstrip().rstrip(',') + '\n  ]\n}'
ContentFixed(content) ==
    RStripComma(RStrip(content)) \o <<WS, RBRACK, WS, RBRACE>>

\* The entry list between '[' and ']': entry (',' entry)*, or nothing.
\* An entry that still holds the literal -inf is not JSON.
EntryListOk(mid) ==
    /\ Len(mid) = 0 \/ Len(mid) % 2 = 1
    /\ \A i \in 1 .. Len(mid) :
          IF i % 2 = 1
          THEN IsEntry(mid[i]) /\ mid[i].logit # "-inf"
          ELSE mid[i] = COMMA

ParsedEvent(t) == [task_id |-> t.task_id, step |-> t.step, logit |-> t.logit]

ParseError == [ok |-> FALSE, isdict |-> FALSE, events |-> <<>>]

\* the value json.loads builds from the text's tokens, whitespace skipped
ParseTokens(toks) ==
    IF toks = <<NONOBJ>>
    THEN [ok |-> TRUE, isdict |-> FALSE, events |-> <<>>]
    ELSE IF /\ Len(toks) >= 3
            /\ toks[1] = HDR
            /\ toks[Len(toks) - 1] = RBRACK
            /\ toks[Len(toks)] = RBRACE
            /\ \A mid \in {SubSeq(toks, 2, Len(toks) - 2)} : EntryListOk(mid)
    THEN [ok |-> TRUE, isdict |-> TRUE,
          events |-> [i \in 1 .. (Len(toks) - 2) \div 2 |->
                         ParsedEvent(toks[2 * i])]]
    ELSE ParseError

\* json.loads(content): ok is FALSE for JSONDecodeError
JsonLoads(content) ==
    CHOOSE r \in {ParseTokens(toks) : toks \in {SelectSeq(content, NotWs)}} :
        TRUE

\* [e for e in all_events if e.get('task_id') == task_id]
EventsForTask(all_events, t) ==
    LET Match(e) == e.task_id = t
    IN  SelectSeq(all_events, Match)


\* ---------------------------------------------------------- the documents
SeqsUpTo(S, n) == UNION {[1 .. k -> S] : k \in 0 .. n}

\* one element of choices[0].logprobs.content
LogprobEntry(i) == [id |-> i, token |-> i, logprob |-> "lp", top_logprobs |-> <<>>]

\* shape "full": choices[0].logprobs.content is there; "nochoices": the
\* document has no 'choices'; "nulllogprobs": choices[0].logprobs is null
ApiDoc(shape, content) ==
    [shape |-> shape, id |-> "chatcmpl", text |-> "out", content |-> content]

ApiDocs ==
    {ApiDoc("full", c) :
        c \in SeqsUpTo({LogprobEntry(i) : i \in 1 .. MaxTokenId}, MaxTokens)}
    \cup {ApiDoc("nochoices", <<>>), ApiDoc("nulllogprobs", <<>>)}

\* entries as the correlators get them
MergeEvents ==
    {[task_id |-> t, step |-> s, logit |-> "num"] :
        t \in Tasks, s \in 0 .. MaxStep}

\* a parsed rejection log; has_events is FALSE when the key is missing
RejectionLog(has, evs) ==
    [has_events |-> has, log_version |-> "1", events |-> evs]

RejectionLogs ==
    {RejectionLog(FALSE, <<>>)}
    \cup {RejectionLog(TRUE, e) : e \in SeqsUpTo(MergeEvents, MaxEvents)}

NotRun == [run |-> FALSE]
MergeRaised == [run |-> TRUE, raised |-> TRUE]

\* ------------------------------------------------------- the correlators
StepsOf(evs) == {evs[i].step : i \in 1 .. Len(evs)}

\* mutant: an entry already in the dict is kept
FirstIndex(evs, s) ==
    CHOOSE i \in 1 .. Len(evs) :
        /\ evs[i].step = s
        /\ \A j \in 1 .. (i - 1) : evs[j].step # s

\* a dict filled in list order: the last entry of a step stays
LastIndex(evs, s) ==
    CHOOSE i \in 1 .. Len(evs) :
        /\ evs[i].step = s
        /\ \A j \in (i + 1) .. Len(evs) : evs[j].step # s

\* mutant: the map is keyed by the entry's position in the log
CreateRejectionMapByPosition(log) ==
    [s \in 0 .. (Len(log.events) - 1) |-> log.events[s + 1]]

\* create_rejection_map
CreateRejectionMap(log) ==
    LET evs == IF log.has_events THEN log.events ELSE <<>>
    IN  [s \in StepsOf(evs) |-> evs[LastIndex(evs, s)]]

\* {event['step']: event for event in rejection_events}
RejectionMap(rejection_events) ==
    [s \in StepsOf(rejection_events) |->
        rejection_events[LastIndex(rejection_events, s)]]

\* .get('choices', [{}])[0].get('logprobs', {}).get('content', [])
LogprobsContent(doc) ==
    IF doc.shape = "nulllogprobs"
    THEN [raised |-> TRUE, content |-> <<>>]     \* None.get: AttributeError
    ELSE IF doc.shape = "nochoices"
    THEN [raised |-> FALSE, content |-> <<>>]
    ELSE [raised |-> FALSE, content |-> doc.content]

\* .get('choices', [{}])[0].get('message', {}).get('content', '')
FinalOutput(doc) == IF doc.shape = "full" THEN doc.text ELSE ""

TokenOf(logprob_entry) ==
    [id |-> logprob_entry.id, text |-> logprob_entry.token,
     logprob |-> logprob_entry.logprob]

RejectionDetail(ev) ==
    [was_rejected |-> TRUE, task_id |-> ev.task_id, pre_masking |-> ev.logit]

OfflineNote == "Token was grammar-valid on first sample, no rejection occurred"
OnlineNote == "Token was grammar-valid on first sample"

\* merge_logs, the loop body
OfflineStep(step_idx, logprob_entry, rejection_map) ==
    [step |-> step_idx,
     token |-> TokenOf(logprob_entry),
     api_top_logprobs |-> logprob_entry.top_logprobs,
     rejection_sampling |->
        IF step_idx \in DOMAIN rejection_map
        THEN RejectionDetail(rejection_map[step_idx])
        ELSE [was_rejected |-> FALSE, note |-> OfflineNote]]

\* merge_response_with_rejections, the loop body
OnlineStep(step_idx, logprob_entry, rejection_map) ==
    [step |-> step_idx,
     token |-> TokenOf(logprob_entry),
     api_top_logprobs |-> logprob_entry.top_logprobs,
     rejection_sampling |->
        IF step_idx \in DOMAIN rejection_map
        THEN RejectionDetail(rejection_map[step_idx])
        ELSE [was_rejected |-> FALSE, note |-> OnlineNote]]

RejectedCount(steps) ==
    Cardinality({i \in 1 .. Len(steps) : steps[i].rejection_sampling.was_rejected})

\* mutant: the division is not guarded
RateUnguarded(rejected_steps, total_steps) == <<rejected_steps, total_steps>>

\* rejected_steps / total_steps as the pair <<numerator, denominator>>;
\* 0.0 is <<0, 1>>
Rate(rejected_steps, total_steps) ==
    IF total_steps > 0 THEN <<rejected_steps, total_steps>> ELSE <<0, 1>>

\* merge_logs, the summary
OfflineSummary(steps, doc) ==
    [total_steps |-> Len(steps),
     rejected_steps |-> RejectedCount(steps),
     rejection_rate |-> Rate(RejectedCount(steps), Len(steps)),
     final_output |-> FinalOutput(doc)]

\* merge_response_with_rejections, the summary
OnlineSummary(steps, doc) ==
    [total_steps |-> Len(steps),
     rejected_steps |-> RejectedCount(steps),
     rejection_rate |-> Rate(RejectedCount(steps), Len(steps)),
     final_output |-> FinalOutput(doc)]

OfflineSteps(content, rejection_map) ==
    [i \in 1 .. Len(content) |-> OfflineStep(i - 1, content[i], rejection_map)]

OnlineSteps(content, rejection_map) ==
    [i \in 1 .. Len(content) |-> OnlineStep(i - 1, content[i], rejection_map)]

\* merge_logs(debug_response, rejection_log)
MergeLogs(doc, log) ==
    IF LogprobsContent(doc).raised
    THEN MergeRaised
    ELSE [run |-> TRUE, raised |-> FALSE,
          metadata |-> [request_id |-> doc.id,
                        rejection_log_version |-> log.log_version],
          steps |-> OfflineSteps(LogprobsContent(doc).content,
                                 CreateRejectionMap(log)),
          summary |-> OfflineSummary(
                         OfflineSteps(LogprobsContent(doc).content,
                                      CreateRejectionMap(log)), doc)]

\* merge_response_with_rejections(response_data, rejection_events); stamp is
\* datetime.now()
MergeResponseWithRejections(doc, rejection_events, stamp) ==
    IF LogprobsContent(doc).raised
    THEN MergeRaised
    ELSE [run |-> TRUE, raised |-> FALSE,
          metadata |-> [request_id |-> doc.id, timestamp |-> stamp],
          steps |-> OnlineSteps(LogprobsContent(doc).content,
                                RejectionMap(rejection_events)),
          summary |-> OnlineSummary(
                         OnlineSteps(LogprobsContent(doc).content,
                                     RejectionMap(rejection_events)), doc)]

\* ------------------------------------------------------ the tail monitor
\* One iteration of the polling loop's try block.  exc: "none", or "caught"
\* when the blanket except swallowed an exception.
PollResult(ret, ev, exc) == [ret |-> ret, events |-> ev, exc |-> exc]

\* mutant: the entries seen are kept when none of them matches
FilterAndReturnKeepsSeen(log_data, t, ev) ==
    IF ~log_data.isdict
    THEN PollResult(FALSE, ev, "caught")
    ELSE LET found == EventsForTask(log_data.events, t)
         IN  PollResult(found # <<>>,
                        IF found # <<>> THEN found ELSE log_data.events,
                        "none")

\* mutant: every entry of the log is returned once one matches
FilterAndReturnAll(log_data, t, ev) ==
    IF ~log_data.isdict
    THEN PollResult(FALSE, ev, "caught")
    ELSE LET found == EventsForTask(log_data.events, t)
         IN  PollResult(found # <<>>,
                        IF found # <<>> THEN log_data.events ELSE found,
                        "none")

\* mutant: only JSONDecodeError is caught, the AttributeError escapes
FilterAndReturnUncaught(log_data, t, ev) ==
    IF ~log_data.isdict
    THEN PollResult(FALSE, ev, "raised")
    ELSE LET found == EventsForTask(log_data.events, t)
         IN  PollResult(found # <<>>, found, "none")

FilterAndReturn(log_data, t, ev) ==
    IF ~log_data.isdict
    THEN PollResult(FALSE, ev, "caught")     \* log_data.get: AttributeError
    ELSE LET found == EventsForTask(log_data.events, t)
         IN  PollResult(found # <<>>, found, "none")

\* lines 62-82: the strict parse, and the repaired one when it fails
ParseThenRepair(content, t, ev) ==
    CHOOSE r \in
        {IF strict.ok
         THEN FilterAndReturn(strict, t, ev)
         ELSE CHOOSE q \in
                 {IF fixed.ok
                  THEN FilterAndReturn(fixed, t, ev)
                  ELSE PollResult(FALSE, ev, "none") :
                      fixed \in {JsonLoads(ContentFixed(content))}} : TRUE :
             strict \in {JsonLoads(content)}} : TRUE

MonitorPoll(f, t, ev) ==
    IF ~f.exists
    THEN PollResult(FALSE, ev, "none")
    ELSE CHOOSE r \in
            {ParseThenRepair(content, t, ev) :
                content \in {ReplaceInf(f.content)}} : TRUE

\* while time.time() - start_time < timeout
LoopTest(el, to) == el < to

\* ---------------------------------------------------- the external writer
Entries(c) == SelectSeq(c, IsEntry)
EntryCount(c) == Len(Entries(c))
TaskCount(c, t) == Len(EventsForTask(Entries(c), t))
Body(c) == RStrip(c)

\* The writer creates the file and starts the header.
WriterCreate ==
    /\ ~file.exists
    /\ \E h \in {HPART, HDR} : file' = OnDisk(<<h>>)

WriterFinishHeader ==
    /\ file.exists
    /\ file.content = <<HPART>>
    /\ file' = OnDisk(<<HDR>>)

\* The first bytes of an entry reach the disk.
WriterBeginEntry(ts) ==
    /\ ts # {}
    /\ file.exists
    /\ file.content # <<>>
    /\ Last(Body(file.content)) \in {HDR, COMMA}
    /\ EntryCount(file.content) < MaxEntries
    /\ file' = OnDisk(file.content \o <<PART>>)

\* The rest of the entry reaches the disk.  A task's steps count up.
WriterCompleteEntry(ts, vs) ==
    /\ file.exists
    /\ file.content # <<>>
    /\ Last(file.content) = PART
    /\ \E t \in ts, v \in vs :
          file' = OnDisk(Front(file.content)
                         \o <<Entry(t, TaskCount(file.content, t), v)>>)

WriterSeparator ==
    /\ file.exists
    /\ file.content # <<>>
    /\ IsEntry(Last(file.content))
    /\ file' = OnDisk(file.content \o <<COMMA>>)

WriterNewline ==
    /\ file.exists
    /\ file.content # <<>>
    /\ \/ IsEntry(Last(file.content))
       \/ Last(file.content) = COMMA
    /\ file' = OnDisk(file.content \o <<WS>>)

WriterCloseArray ==
    /\ file.exists
    /\ file.content # <<>>
    /\ \/ Last(Body(file.content)) = HDR
       \/ IsEntry(Last(Body(file.content)))
    /\ file' = OnDisk(file.content \o <<RBRACK>>)

WriterCloseObject ==
    /\ file.exists
    /\ file.content # <<>>
    /\ Last(file.content) = RBRACK
    /\ file' = OnDisk(file.content \o <<RBRACE>>)

Writer(ts, vs) ==
    \/ WriterCreate
    \/ WriterFinishHeader
    \/ WriterBeginEntry(ts)
    \/ WriterCompleteEntry(ts, vs)
    \/ WriterSeparator
    \/ WriterNewline
    \/ WriterCloseArray
    \/ WriterCloseObject

\* ------------------------------------------- get_events_for_task, stepwise
MonCall ==
    /\ mon_pc = "idle"
    /\ \E t \in Tasks, to \in TimeoutValues :
          /\ task_id' = t
          /\ timeout' = to
    /\ elapsed' = 0
    /\ events' = <<>>
    /\ result' = <<>>
    /\ mon_pc' = "loop"
    /\ UNCHANGED fileVars

MonLoopTest ==
    /\ mon_pc = "loop"
    /\ IF LoopTest(elapsed, timeout)
       THEN mon_pc' = "poll" /\ result' = result
       ELSE mon_pc' = "done" /\ result' = events
    /\ UNCHANGED <<file, task_id, timeout, elapsed, events>>

MonPoll ==
    /\ mon_pc = "poll"
    /\ \E out \in {MonitorPoll(file, task_id, events)} :
           /\ events' = out.events
           /\ IF out.exc = "raised"
              THEN mon_pc' = "raised" /\ result' = result
              ELSE IF out.ret
              THEN mon_pc' = "done" /\ result' = out.events
              ELSE mon_pc' = "sleep" /\ result' = result
    /\ UNCHANGED <<file, task_id, timeout, elapsed>>

\* time.sleep(0.1): at least one poll interval goes by
MonSleep ==
    /\ mon_pc = "sleep"
    /\ \E d \in 1 .. 2 : elapsed' = elapsed + d
    /\ mon_pc' = "loop"
    /\ UNCHANGED <<file, task_id, timeout, events, result>>

\* the caller takes the list
MonReturn ==
    /\ mon_pc = "done"
    /\ mon_pc' = "idle"
    /\ task_id' = 1
    /\ timeout' = 0
    /\ elapsed' = 0
    /\ events' = <<>>
    /\ result' = <<>>
    /\ UNCHANGED fileVars

Monitor == MonCall \/ MonLoopTest \/ MonPoll \/ MonSleep \/ MonReturn

\* ------------------------------------------------------------ the proxy
Request(e, m, l) == [endpoint |-> e, method |-> m, logprobs |-> l]

\* logprobs: "yes" and "no" are what the JSON body asks for; "badjson" is a
\* body request.get_json() raises on
RequestKinds ==
    {Request("chat/completions", "POST", "yes"),
     Request("chat/completions", "POST", "no"),
     Request("chat/completions", "POST", "badjson"),
     Request("chat/completions", "GET", "no"),
     Request("completions", "POST", "yes"),
     Request("models", "GET", "no")}

NoRequest == Request("", "", "no")

\* a POST makes the server generate, under a task of its own
Generates(req) == req.method = "POST"

UpstreamResponse(st, ctype, json, doc) ==
    [status |-> st,
     headers |-> {<<"Content-Type", ctype>>},
     body |-> [json |-> json, doc |-> doc]]

\* the documents the upstream server answers with
ProxyApiDocs ==
    {ApiDoc("full", <<LogprobEntry(1)>>),
     ApiDoc("nochoices", <<>>),
     ApiDoc("nulllogprobs", <<>>)}

UpstreamResponses ==
    {UpstreamResponse(200, "application/json", TRUE, d) : d \in ProxyApiDocs}
    \cup {UpstreamResponse(500, "text/html", FALSE, ApiDoc("nochoices", <<>>))}

NoResponse == [status |-> 0, headers |-> {}, body |-> [json |-> FALSE, doc |-> ApiDoc("nochoices", <<>>)]]

\* Response(response=resp.content, status=resp.status_code,
\*          headers=dict(resp.headers))
Original(resp) ==
    [status |-> resp.status, headers |-> resp.headers, body |-> resp.body]

\* response.headers[name] = value
WithHeader(response, name, value) ==
    [response EXCEPT
        !.headers = {h \in response.headers : h[1] # name} \cup {<<name, value>>}]

CombinedHeader == "X-Combined-Data-Available"

\* ProxyConfig.output_dir / f"combined_{timestamp}.json"
OutputFile(stamp) == <<"combined", stamp>>

\* mutant: the entries of the task of the log's first entry are taken
FirstTaskEvents(f) ==
    IF ~f.exists
    THEN [cause |-> "log_missing", events |-> <<>>]
    ELSE CHOOSE r \in
            {IF ~log_data.ok
             THEN [cause |-> "log_unparsable", events |-> <<>>]
             ELSE IF log_data.events = <<>>
             THEN [cause |-> "none", events |-> <<>>]
             ELSE [cause |-> "none",
                   events |-> EventsForTask(log_data.events,
                                            Head(log_data.events).task_id)] :
                 log_data \in {JsonLoads(ContentFixed(ReplaceInf(f.content)))}} :
            TRUE

\* lines 222-233: the log is read once, always repaired, and the entries of
\* its last entry's task are taken
LatestTaskEvents(f) ==
    IF ~f.exists
    THEN [cause |-> "log_missing", events |-> <<>>]
    ELSE CHOOSE r \in
            {IF ~log_data.ok
             THEN [cause |-> "log_unparsable", events |-> <<>>]
             ELSE IF log_data.events = <<>>
             THEN [cause |-> "none", events |-> <<>>]
             ELSE [cause |-> "none",
                   events |-> EventsForTask(log_data.events,
                                            Last(log_data.events).task_id)] :
                 log_data \in {JsonLoads(ContentFixed(ReplaceInf(f.content)))}} :
            TRUE

\* lines 217-236
CollectRejections(f, mon) ==
    IF mon THEN LatestTaskEvents(f) ELSE [cause |-> "none", events |-> <<>>]

Outcome(response, cause, evs, comb, written) ==
    [response |-> response, cause |-> cause, rejection_events |-> evs,
     combined |-> comb, written |-> written]

NoOutcome == Outcome(NoResponse, "none", <<>>, NotRun, FALSE)

\* mutant: the exception is not caught and Flask answers 500
OnFailureUncaught(resp, cause, evs, comb) ==
    Outcome([status |-> 500, headers |-> {}, body |-> resp.body],
            cause, evs, comb, FALSE)

\* lines 259-267: the exception is caught, the original response returned
OnFailure(resp, cause, evs, comb) ==
    Outcome(Original(resp), cause, evs, comb, FALSE)

\* lines 238-257
MergeAndSave(resp, evs, save, write_fails, stamp) ==
    CHOOSE r \in
        {IF comb.raised
         THEN OnFailure(resp, "merge_raised", evs, NotRun)
         ELSE IF ~save
         THEN OnFailure(resp, "output_file_unbound", evs, comb)
         ELSE IF write_fails
         THEN OnFailure(resp, "write_failed", evs, comb)
         ELSE Outcome(WithHeader(Original(resp), CombinedHeader,
                                 OutputFile(stamp)),
                      "none", evs, comb, TRUE) :
             comb \in {MergeResponseWithRejections(resp.body.doc, evs, stamp)}} :
        TRUE

\* lines 199-267
ProxyOutcome(req, resp, f, save, mon, write_fails, stamp) ==
    IF ~(req.endpoint = "chat/completions" /\ req.method = "POST")
    THEN Outcome(Original(resp), "none", <<>>, NotRun, FALSE)
    ELSE IF ~resp.body.json
    THEN OnFailure(resp, "not_json", <<>>, NotRun)
    ELSE IF req.logprobs = "badjson"
    THEN OnFailure(resp, "bad_request_json", <<>>, NotRun)
    ELSE IF req.logprobs # "yes"
    THEN Outcome(Original(resp), "none", <<>>, NotRun, FALSE)
    ELSE CHOOSE r \in
            {IF got.events = <<>>
             THEN Outcome(Original(resp), got.cause, <<>>, NotRun, FALSE)
             ELSE MergeAndSave(resp, got.events, save, write_fails, stamp) :
                 got \in {CollectRejections(f, mon)}} : TRUE

ProxyIdle ==
    /\ outdir = [s \in Stamps |-> NotRun]
    /\ next_task = 1
    /\ pc = [r \in Workers |-> "idle"]
    /\ request = [r \in Workers |-> NoRequest]
    /\ task = [r \in Workers |-> 0]
    /\ upstream = [r \in Workers |-> NoResponse]
    /\ outcome = [r \in Workers |-> NoOutcome]

ConfigDefault ==
    /\ save_combined = TRUE
    /\ monitor = TRUE

\* ------------------------------------------------ trace documents (models.py)
\* Numbers.  The probability field a trace document supplies ('p') is kept
\* in tenths.  exp(logit - max_logit) is kept in ten-thousandths, and a
\* recovered probability exp_val / sum_exp as the pair <<exp_val, sum_exp>>.
CandTokens == {1, 2}
LogitValues == {0, 2}
ProbValues == {5, 10}
TraceSteps == {0, 1}
\* top_k: int = 5
DefaultTopK == 5
TopKs == (-1 .. MaxTopK) \cup {DefaultTopK}

\* TokenCandidate; __post_init__ fills an empty token_str from the id
TokenCandidate(token, prob, logit) ==
    [token |-> token, prob |-> prob, logit |-> logit, token_str |-> token]

Candidates ==
    {TokenCandidate(t, pr, l) :
        t \in CandTokens, pr \in ProbValues, l \in LogitValues}

\* TokenFilteringEvent
TokenFilteringEvent(step, before, after, rejected_count) ==
    [type |-> "token_filtering", step |-> step,
     candidates_before |-> before, candidates_after |-> after,
     rejected_count |-> rejected_count]

\* TokenAcceptedEvent
TokenAcceptedEvent(step, token) ==
    [type |-> "token_accepted", step |-> step, token |-> token,
     token_str |-> token]

\* isinstance(e, TokenFilteringEvent), isinstance(e, TokenAcceptedEvent)
IsFiltering(e) == e.type = "token_filtering"
IsAccepted(e) == e.type = "token_accepted"

\* {c.token for c in candidates}
Ids(candidates) == {candidates[i].token : i \in 1 .. Len(candidates)}

\* before_ids - after_ids
RejectedIds(e) == Ids(e.candidates_before) \ Ids(e.candidates_after)

\* a raw event of a trace document
RawFiltering(step, before, after) ==
    [type |-> "token_filtering", step |-> step,
     candidates_before |-> before, candidates_after |-> after,
     rejected_count |-> Cardinality(Ids(before) \ Ids(after))]

RawAccepted(step, token) ==
    [type |-> "token_accepted", step |-> step, token |-> token]

RawUnknown == [type |-> "other", step |-> 0]

\* short snapshots: the grammar engine's snapshots of one distribution, cut
\* at different lengths
ShortBefore ==
    {<<TokenCandidate(1, 5, 2)>>,
     <<TokenCandidate(1, 5, 2), TokenCandidate(2, 5, 0)>>}

ShortAfter == {<<>>, <<TokenCandidate(1, 10, 2)>>}

ShortEvents ==
    {RawFiltering(s, b, a) : s \in TraceSteps, b \in ShortBefore, a \in ShortAfter}
    \cup {RawAccepted(s, t) : s \in TraceSteps, t \in CandTokens}
    \cup {RawUnknown}

TraceDocument(evs) == [trace_version |-> "1", events |-> evs]

\* a document without the version tag
UnversionedDocument(evs) == [events |-> evs]

\* the documents without an events array: with the version tag only, and
\* the empty object
EventlessDocuments == {[trace_version |-> "1"], [f \in {} |-> 0]}

\* a document of up to MaxTraceEvents short events, with or without the
\* version tag, or a document without an events array
ShortDocument(doc) ==
    \/ \E n \in 0 .. MaxTraceEvents :
          \E evs \in [1 .. n -> ShortEvents] :
              \/ doc = TraceDocument(evs)
              \/ doc = UnversionedDocument(evs)
    \/ doc \in EventlessDocuments

\* the event with the rejected_count the engine wrote: the number of ids
\* in before and not in after, or (extra = 1) one more
Counted(raw_event, extra) ==
    [raw_event EXCEPT !.rejected_count = @ + extra]

\* a document of one full snapshot of step 0 (any two candidate lists of at
\* most MaxCandidates candidates together), alone or followed by the step's
\* accepted token
FullDocument(doc) ==
    \E nb \in 0 .. MaxCandidates :
        \E na \in 0 .. (MaxCandidates - nb) :
            \E b \in [1 .. nb -> Candidates] :
                \E a \in [1 .. na -> Candidates] :
                    \E extra \in {0, 1} :
                        \/ doc = TraceDocument(
                                     <<Counted(RawFiltering(0, b, a), extra)>>)
                        \/ \E t \in CandTokens :
                              doc = TraceDocument(
                                        <<Counted(RawFiltering(0, b, a), extra),
                                          RawAccepted(0, t)>>)

\* a peaked distribution over five tokens: one likely token and four tokens
\* four logits below it
PeakedCandidates ==
    <<TokenCandidate(1, 2, 4), TokenCandidate(2, 2, 0), TokenCandidate(3, 2, 0),
      TokenCandidate(4, 2, 0), TokenCandidate(5, 2, 0)>>

\* a document of one step whose snapshot keeps the five peaked candidates
PeakedDocument(doc) ==
    \E b \in ShortBefore \cup {PeakedCandidates} :
        \E t \in CandTokens :
            doc = TraceDocument(<<RawFiltering(0, b, PeakedCandidates),
                                  RawAccepted(0, t)>>)

\* GenerationTrace(...) as parse_trace_file constructs it
EmptyTrace(version) ==
    [trace_version |-> version, events |-> <<>>, generated_tokens |-> <<>>,
     generation_steps |-> 0, total_rejections |-> 0]

\* ------------------------------------------------ sums, maxima and sorting
RECURSIVE SumOver(_, _)
SumOver(seq, n) == IF n = 0 THEN 0 ELSE SumOver(seq, n - 1) + seq[n]

\* sum(...) of a list of numbers
Sum(seq) == SumOver(seq, Len(seq))

\* max(...) of a non-empty list of numbers
MaxOf(seq) ==
    CHOOSE x \in {seq[i] : i \in 1 .. Len(seq)} :
        \A i \in 1 .. Len(seq) : seq[i] <= x

\* place of element i in sorted(seq, key=..., reverse=True), keys[i] being
\* the key of seq[i]: the sort is stable, so equal keys keep their order
RankDesc(keys, i) ==
    1 + Cardinality({j \in 1 .. Len(keys) : keys[j] > keys[i]})
      + Cardinality({j \in 1 .. (i - 1) : keys[j] = keys[i]})

\* mutant: the sort puts the lowest key first
SortedAscending(seq, keys) ==
    [r \in 1 .. Len(seq) |->
        seq[CHOOSE i \in 1 .. Len(seq) :
              r = 1 + Cardinality({j \in 1 .. Len(keys) : keys[j] < keys[i]})
                    + Cardinality({j \in 1 .. (i - 1) : keys[j] = keys[i]})]]

\* sorted(seq, key=..., reverse=True)
SortedReverse(seq, keys) ==
    [r \in 1 .. Len(seq) |->
        seq[CHOOSE i \in 1 .. Len(seq) : RankDesc(keys, i) = r]]

\* seq[:n] of Python: a negative n counts from the end
Slice(seq, n) ==
    IF n >= 0
    THEN SubSeq(seq, 1, IF n < Len(seq) THEN n ELSE Len(seq))
    ELSE SubSeq(seq, 1, IF Len(seq) + n > 0 THEN Len(seq) + n ELSE 0)

\* ------------------------------------------------------ models.py, methods
\* [c.prob for c in candidates], [c.logit for c in candidates]
Probs(candidates) == [i \in 1 .. Len(candidates) |-> candidates[i].prob]
LogitsOf(candidates) == [i \in 1 .. Len(candidates) |-> candidates[i].logit]

\* [e.step for e in events]
StepsOfEvents(evs) == [i \in 1 .. Len(evs) |-> evs[i].step]

\* get_probability_shift: the supplied probabilities, before minus after
GetProbabilityShift(e) ==
    Sum(Probs(e.candidates_before)) - Sum(Probs(e.candidates_after))

\* get_rejection_details
GetRejectionDetails(e) ==
    LET Rejected(c) == c.token \in RejectedIds(e)
    IN  SelectSeq(e.candidates_before, Rejected)

\* [e for e in self.events if hasattr(e, 'step') and e.step == step]
StepEvents(tr, step) ==
    LET AtStep(e) == e.step = step
    IN  SelectSeq(tr.events, AtStep)

NoEvent == [type |-> "none"]

\* mutant: the last filtering event of the step is taken
LastFiltering(filtering_events) ==
    IF filtering_events = <<>> THEN NoEvent
    ELSE filtering_events[Len(filtering_events)]

\* max(filtering_events, key=lambda e: len(e.candidates_before)): the first
\* of the largest
MaxFiltering(filtering_events) ==
    IF filtering_events = <<>> THEN NoEvent
    ELSE filtering_events[
            CHOOSE i \in 1 .. Len(filtering_events) :
                /\ \A j \in 1 .. Len(filtering_events) :
                      Len(filtering_events[j].candidates_before)
                          <= Len(filtering_events[i].candidates_before)
                /\ \A j \in 1 .. (i - 1) :
                      Len(filtering_events[j].candidates_before)
                          < Len(filtering_events[i].candidates_before)]

\* next((e for e in step_events if isinstance(e, TokenAcceptedEvent)), None)
FirstAccepted(step_events) ==
    IF SelectSeq(step_events, IsAccepted) = <<>> THEN NoEvent
    ELSE Head(SelectSeq(step_events, IsAccepted))

\* GenerationTrace.get_step_summary
GetStepSummary(tr, step) ==
    [step |-> step,
     filtering |-> MaxFiltering(SelectSeq(StepEvents(tr, step), IsFiltering)),
     accepted |-> FirstAccepted(StepEvents(tr, step))]

\* threshold 0.3, in tenths
Threshold == 3

\* GenerationTrace.get_high_impact_steps
GetHighImpactSteps(tr, threshold) ==
    LET HighImpact(e) == IsFiltering(e) /\ GetProbabilityShift(e) > threshold
    IN  StepsOfEvents(SelectSeq(tr.events, HighImpact))

\* ------------------------------------------------------------- exporter.py
\* math.exp(-d) in ten-thousandths
ExpNeg(d) ==
    CASE d = 0 -> 10000
      [] d = 1 -> 3679
      [] d = 2 -> 1353
      [] d = 3 -> 498
      [] OTHER -> 183

\* mutant: the exponentials are not divided by their sum
NormalizeWithoutSum(candidates) ==
    IF candidates = <<>> THEN <<>>
    ELSE LET max_logit == MaxOf(LogitsOf(candidates))
         IN  [i \in 1 .. Len(candidates) |->
                [token |-> candidates[i].token,
                 prob |-> <<ExpNeg(max_logit - candidates[i].logit), 10000>>,
                 logit |-> candidates[i].logit,
                 str |-> candidates[i].token_str]]

\* TraceExporter._normalize_logits_to_probs
NormalizeLogitsToProbs(candidates) ==
    IF candidates = <<>> THEN <<>>
    ELSE LET max_logit == MaxOf(LogitsOf(candidates))
             ExpLogit(c) == ExpNeg(max_logit - c.logit)
             sum_exp == Sum([i \in 1 .. Len(candidates) |->
                                ExpLogit(candidates[i])])
         IN  [i \in 1 .. Len(candidates) |->
                [token |-> candidates[i].token,
                 prob |-> IF sum_exp > 0
                          THEN <<ExpLogit(candidates[i]), sum_exp>>
                          ELSE <<0, 1>>,
                 logit |-> candidates[i].logit,
                 str |-> candidates[i].token_str]]

\* key=lambda c: c["prob"]: the probabilities of one list share sum_exp
NormProbs(candidates_norm) ==
    [i \in 1 .. Len(candidates_norm) |-> candidates_norm[i].prob[1]]

\* sum(c["prob"] for c in candidates_before_norm if c["token"] in rejected_ids)
ProbShift(e) ==
    LET Rejected(c) == c.token \in RejectedIds(e)
        rejected == SelectSeq(NormalizeLogitsToProbs(e.candidates_before),
                              Rejected)
    IN  IF rejected = <<>> THEN <<0, 1>>
        ELSE <<Sum(NormProbs(rejected)), rejected[1].prob[2]>>

\* round(prob, 4), in ten-thousandths; a tie goes to the even neighbour
Round4(prob) ==
    LET n == prob[1] * 10000
        q == n \div prob[2]
        r == n % prob[2]
    IN  IF 2 * r > prob[2] THEN q + 1
        ELSE IF 2 * r < prob[2] THEN q
        ELSE IF q % 2 = 0 THEN q ELSE q + 1

\* max(...) of a non-empty list of fractions
MaxFraction(seq) ==
    CHOOSE x \in {seq[i] : i \in 1 .. Len(seq)} :
        \A i \in 1 .. Len(seq) : seq[i][1] * x[2] <= x[1] * seq[i][2]

\* TraceExporter._calculate_statistics; {} is the function without fields,
\* a mean is kept as the terms and their count
CalculateStatistics(filtering_events) ==
    IF filtering_events = <<>> THEN [f \in {} |-> 0]
    ELSE LET rejection_counts ==
                 [i \in 1 .. Len(filtering_events) |->
                     filtering_events[i].rejected_count]
             prob_shifts ==
                 [i \in 1 .. Len(filtering_events) |->
                     ProbShift(filtering_events[i])]
         IN  [total_filtering_events |-> Len(filtering_events),
              avg_rejections_per_step |->
                  <<Sum(rejection_counts), Len(rejection_counts)>>,
              max_rejections_in_step |-> MaxOf(rejection_counts),
              avg_prob_shift |->
                  [terms |-> prob_shifts, count |-> Len(prob_shifts)],
              max_prob_shift |-> MaxFraction(prob_shifts)]

\* [:5] of top_rejected
TopRejected == 5

\* TraceExporter._identify_decision_points
IdentifyDecisionPoints(filtering_events, threshold) ==
    LET Significant(e) == GetProbabilityShift(e) > threshold
        Point(e) ==
            [step |-> e.step,
             prob_shift |-> GetProbabilityShift(e),
             rejections |-> e.rejected_count,
             top_rejected |->
                 Slice(SortedReverse(GetRejectionDetails(e),
                                     Probs(GetRejectionDetails(e))),
                       TopRejected)]
        significant == SelectSeq(filtering_events, Significant)
    IN  [i \in 1 .. Len(significant) |-> Point(significant[i])]

\* [:20] of the timeline's candidate lists
TimelineLimit == 20

None == "None"

\* TraceExporter._build_timeline, one entry
TimelineEntry(tr, step) ==
    LET step_summary_ == GetStepSummary(tr, step)
        filtering == step_summary_.filtering
        accepted == step_summary_.accepted
    IN  [step |-> step,
         token |-> IF accepted # NoEvent THEN accepted.token_str ELSE None,
         token_id |-> IF accepted # NoEvent THEN accepted.token ELSE None,
         has_filtering |-> filtering # NoEvent,
         candidates_before |->
             IF filtering = NoEvent THEN <<>>
             ELSE Slice(SortedReverse(
                            NormalizeLogitsToProbs(filtering.candidates_before),
                            NormProbs(NormalizeLogitsToProbs(
                                          filtering.candidates_before))),
                        TimelineLimit),
         candidates_after |->
             IF filtering = NoEvent THEN <<>>
             ELSE Slice(SortedReverse(
                            NormalizeLogitsToProbs(filtering.candidates_after),
                            NormProbs(NormalizeLogitsToProbs(
                                          filtering.candidates_after))),
                        TimelineLimit),
         rejected_count |->
             IF filtering = NoEvent THEN None ELSE filtering.rejected_count,
         prob_shift |->
             IF filtering = NoEvent THEN None ELSE ProbShift(filtering)]

\* range(trace.generation_steps + 1)
StepRange(tr) == [i \in 1 .. (tr.generation_steps + 1) |-> i - 1]

\* TraceExporter._build_timeline
BuildTimeline(tr) ==
    [i \in 1 .. (tr.generation_steps + 1) |-> TimelineEntry(tr, i - 1)]

\* TraceExporter.export_for_dashboard: the document written
ExportForDashboard(tr) ==
    [metadata |-> [trace_version |-> tr.trace_version,
                   generation_steps |-> tr.generation_steps,
                   total_tokens |-> Len(tr.generated_tokens),
                   total_rejections |-> tr.total_rejections],
     statistics |-> CalculateStatistics(SelectSeq(tr.events, IsFiltering)),
     decision_points |->
         IdentifyDecisionPoints(SelectSeq(tr.events, IsFiltering), Threshold),
     timeline |-> BuildTimeline(tr),
     generated_text |-> tr.generated_tokens]

\* the accepted token's probability: the first candidate with its id, 0.0
\* when there is none
AcceptedProb(candidates_norm, token) ==
    IF \E i \in 1 .. Len(candidates_norm) : candidates_norm[i].token = token
    THEN candidates_norm[CHOOSE i \in 1 .. Len(candidates_norm) :
            /\ candidates_norm[i].token = token
            /\ \A j \in 1 .. (i - 1) : candidates_norm[j].token # token].prob
    ELSE <<0, 1>>

\* TraceExporter.export_structured_json, one entry
StructuredEntry(tr, step, k) ==
    LET filtering == GetStepSummary(tr, step).filtering
        accepted == GetStepSummary(tr, step).accepted
        candidates_norm == NormalizeLogitsToProbs(filtering.candidates_after)
        candidates_sorted ==
            SortedReverse(candidates_norm, NormProbs(candidates_norm))
        Token(c) == [token |-> c.str, probability |-> Round4(c.prob)]
    IN  [step |-> step,
         accepted_token |-> accepted.token_str,
         accepted_probability |->
             Round4(AcceptedProb(candidates_norm, accepted.token)),
         all_tokens |->
             [i \in 1 .. Len(Slice(candidates_sorted, k)) |->
                 Token(Slice(candidates_sorted, k)[i])]]

\* TraceExporter.export_structured_json: steps without a filtering or
\* without an accepted event are skipped
ExportStructuredJson(tr, k) ==
    LET Complete(step) ==
            /\ GetStepSummary(tr, step).filtering # NoEvent
            /\ GetStepSummary(tr, step).accepted # NoEvent
        complete == SelectSeq(StepRange(tr), Complete)
    IN  [i \in 1 .. Len(complete) |-> StructuredEntry(tr, complete[i], k)]

\* ---------------------------------------------------------------- parser.py
\* GrammarTraceParser._parse_token_filtering, _parse_token_accepted
ParseTokenFiltering(raw_event) ==
    TokenFilteringEvent(raw_event.step, raw_event.candidates_before,
                        raw_event.candidates_after, raw_event.rejected_count)

ParseTokenAccepted(raw_event) ==
    TokenAcceptedEvent(raw_event.step, raw_event.token)

\* mutant: an event of unknown type is kept in the log
ParseEventKeepsUnknown(tr, raw_event) ==
    IF raw_event.type = "token_filtering"
    THEN [tr EXCEPT
            !.events = Append(@, ParseTokenFiltering(raw_event)),
            !.total_rejections = @ + raw_event.rejected_count]
    ELSE IF raw_event.type = "token_accepted"
    THEN [tr EXCEPT
            !.events = Append(@, ParseTokenAccepted(raw_event)),
            !.generated_tokens = Append(@, raw_event.token)]
    ELSE [tr EXCEPT !.events = Append(@, raw_event)]

\* parse_trace_file, one pass of the loop over the raw events
ParseEvent(tr, raw_event) ==
    IF raw_event.type = "token_filtering"
    THEN [tr EXCEPT
            !.events = Append(@, ParseTokenFiltering(raw_event)),
            !.total_rejections = @ + raw_event.rejected_count]
    ELSE IF raw_event.type = "token_accepted"
    THEN [tr EXCEPT
            !.events = Append(@, ParseTokenAccepted(raw_event)),
            !.generated_tokens = Append(@, raw_event.token)]
    ELSE tr

RECURSIVE ParseEvents(_, _, _)
ParseEvents(tr, raw_events, n) ==
    IF n = 0 THEN tr
    ELSE ParseEvent(ParseEvents(tr, raw_events, n - 1), raw_events[n])

\* mutant: the step of the last event is taken
WithLastStep(tr) ==
    IF tr.events = <<>> THEN tr
    ELSE [tr EXCEPT !.generation_steps = tr.events[Len(tr.events)].step]

\* parse_trace_file, the generation steps
WithGenerationSteps(tr) ==
    IF tr.events = <<>> THEN tr
    ELSE [tr EXCEPT !.generation_steps = MaxOf(StepsOfEvents(tr.events))]

\* raw_data.get("trace_version", "unknown")
VersionOf(raw) ==
    IF "trace_version" \in DOMAIN raw THEN raw.trace_version ELSE "unknown"

\* sys.exit(1)
SysExit == [exit |-> TRUE]

\* GrammarTraceParser.parse_trace_file on a loaded document: the trace, or
\* the exit when the document has no events array
ParseTraceFile(raw) ==
    IF "events" \notin DOMAIN raw THEN SysExit
    ELSE [exit |-> FALSE,
          trace |-> WithGenerationSteps(
                        ParseEvents(EmptyTrace(VersionOf(raw)), raw.events,
                                    Len(raw.events)))]

\* validate_trace, the warnings of one step
StepWarnings(tr, step) ==
    LET filtering == GetStepSummary(tr, step).filtering
        accepted == GetStepSummary(tr, step).accepted
    IN  (IF filtering = NoEvent
         THEN <<[step |-> step, warning |-> "Missing token_filtering event"]>>
         ELSE <<>>)
        \o (IF accepted = NoEvent
            THEN <<[step |-> step, warning |-> "Missing token_accepted event"]>>
            ELSE <<>>)
        \o (IF /\ filtering # NoEvent
               /\ accepted # NoEvent
               /\ accepted.token \notin Ids(filtering.candidates_after)
            THEN <<[step |-> step,
                    warning |-> "Accepted token not found in candidates_after"]>>
            ELSE <<>>)

RECURSIVE WarningsUpTo(_, _)
WarningsUpTo(tr, n) ==
    IF n < 0 THEN <<>> ELSE WarningsUpTo(tr, n - 1) \o StepWarnings(tr, n)

\* GrammarTraceParser.validate_trace
ValidateTrace(tr) == WarningsUpTo(tr, tr.generation_steps)

\* --------------------------------------------------- the trace tools at rest
Returned(value) == [run |-> TRUE, value |-> value]

NoOutput ==
    /\ top_k = 0
    /\ step_summary = NotRun
    /\ structured_data = NotRun
    /\ dashboard_data = NotRun
    /\ high_impact = NotRun
    /\ warnings = NotRun

TraceIdle ==
    /\ raw_data = TraceDocument(<<>>)
    /\ trace = EmptyTrace("1")
    /\ trace_pc = "idle"
    /\ NoOutput

MonIdle ==
    /\ mon_pc = "idle"
    /\ task_id = 1
    /\ timeout = 0
    /\ elapsed = 0
    /\ events = <<>>
    /\ result = <<>>

MergeIdle ==
    /\ debug_response = ApiDoc("nochoices", <<>>)
    /\ rejection_log = RejectionLog(FALSE, <<>>)
    /\ combined = NotRun
    /\ combined_online = NotRun

MonInit ==
    /\ file \in {NoFile, OnDisk(<<NONOBJ>>)}
    /\ TraceIdle
    /\ MonIdle
    /\ MergeIdle
    /\ ProxyIdle
    /\ ConfigDefault

MonNext ==
    \/ Writer(Tasks, Logits)
          /\ UNCHANGED <<monVars, mergeVars, configVars, traceVars, proxyVars>>
    \/ Monitor /\ UNCHANGED <<mergeVars, configVars, traceVars, proxyVars>>

MonSpec == MonInit /\ [][MonNext]_vars

\* The request thread keeps running: each step of the loop is taken.
MonFairSpec ==
    /\ MonInit
    /\ [][MonNext]_vars
    /\ WF_vars((MonLoopTest \/ MonPoll \/ MonSleep)
                   /\ UNCHANGED <<mergeVars, configVars, traceVars, proxyVars>>)


\* ------------------------------------------------- proxy_request, stepwise
InFlight(r) == pc[r] \in {"upstream", "collect"}
InFlightTasks ==
    {task[r] : r \in {w \in DOMAIN pc : InFlight(w) /\ task[w] # 0}}

\* The request arrives and is forwarded; serial: one request at a time.
ProxyReceive(r, serial) ==
    /\ pc[r] = "idle"
    /\ serial => \A w \in Workers : pc[w] = "idle"
    /\ \E req \in RequestKinds :
          /\ request' = [request EXCEPT ![r] = req]
          /\ IF Generates(req)
             THEN /\ next_task <= MaxTask
                  /\ task' = [task EXCEPT ![r] = next_task]
                  /\ next_task' = next_task + 1
             ELSE /\ task' = [task EXCEPT ![r] = 0]
                  /\ next_task' = next_task
    /\ pc' = [pc EXCEPT ![r] = "upstream"]
    /\ UNCHANGED <<fileVars, monVars, mergeVars, configVars, traceVars, outdir,
                   upstream, outcome>>

\* requests.request(...) returns
UpstreamRespond(r) ==
    /\ pc[r] = "upstream"
    /\ \E resp \in UpstreamResponses :
          upstream' = [upstream EXCEPT ![r] = resp]
    /\ pc' = [pc EXCEPT ![r] = "collect"]
    /\ UNCHANGED <<fileVars, monVars, mergeVars, configVars, traceVars, outdir,
                   next_task, request, task, outcome>>

\* the rest of proxy_request, from line 199 to its return
ProxyRespond(r) ==
    /\ pc[r] = "collect"
    /\ \E write_fails \in BOOLEAN, stamp \in Stamps :
          \E out \in {ProxyOutcome(request[r], upstream[r], file,
                                   save_combined, monitor, write_fails, stamp)} :
              /\ outcome' = [outcome EXCEPT ![r] = out]
              /\ outdir' = IF out.written
                           THEN [outdir EXCEPT ![stamp] = out.combined]
                           ELSE outdir
    /\ pc' = [pc EXCEPT ![r] = "done"]
    /\ UNCHANGED <<fileVars, monVars, mergeVars, configVars, traceVars, next_task,
                   request, task, upstream>>

\* the client has the response; the worker is free again
ProxyFinish(r) ==
    /\ pc[r] = "done"
    /\ pc' = [pc EXCEPT ![r] = "idle"]
    /\ request' = [request EXCEPT ![r] = NoRequest]
    /\ task' = [task EXCEPT ![r] = 0]
    /\ upstream' = [upstream EXCEPT ![r] = NoResponse]
    /\ outcome' = [outcome EXCEPT ![r] = NoOutcome]
    /\ UNCHANGED <<fileVars, monVars, mergeVars, configVars, traceVars, outdir,
                   next_task>>

Init ==
    /\ file = NoFile
    /\ TraceIdle
    /\ MonIdle
    /\ MergeIdle
    /\ ProxyIdle
    /\ save_combined \in BOOLEAN
    /\ monitor \in BOOLEAN

\* the writer logs the rejections of the tasks in flight; every snapshot it
\* logs holds masked candidates, written as -inf
Next ==
    \/ Writer(InFlightTasks, {"-inf"})
          /\ UNCHANGED <<monVars, mergeVars, configVars, traceVars, proxyVars>>
    \/ \E r \in Workers : ProxyReceive(r, TRUE)
    \/ \E r \in Workers : UpstreamRespond(r)
    \/ \E r \in Workers : ProxyRespond(r)
    \/ \E r \in Workers : ProxyFinish(r)

\* requests are handled strictly one at a time
Spec == Init /\ [][Next]_vars

\* app.run(...): the server handles every request in a thread of its own;
\* two requests, each in its thread
Threads == {1, 2}

ThreadedInit ==
    /\ file = NoFile
    /\ TraceIdle
    /\ MonIdle
    /\ MergeIdle
    /\ ConfigDefault
    /\ outdir = [s \in Stamps |-> NotRun]
    /\ next_task = 1
    /\ pc = [r \in Threads |-> "idle"]
    /\ request = [r \in Threads |-> NoRequest]
    /\ task = [r \in Threads |-> 0]
    /\ upstream = [r \in Threads |-> NoResponse]
    /\ outcome = [r \in Threads |-> NoOutcome]

\* a request is taken while another is in flight; the threads share the log
ThreadedNext ==
    \/ Writer(InFlightTasks, {"-inf"})
          /\ UNCHANGED <<monVars, mergeVars, configVars, traceVars, proxyVars>>
    \/ \E r \in Threads : ProxyReceive(r, FALSE)
    \/ \E r \in Threads : UpstreamRespond(r)
    \/ \E r \in Threads : ProxyRespond(r)

ThreadedSpec == ThreadedInit /\ [][ThreadedNext]_vars

\* ------------------------------------------ the correlators on documents
RunMergeLogs ==
    /\ combined = NotRun
    /\ combined' = MergeLogs(debug_response, rejection_log)
    /\ UNCHANGED <<fileVars, monVars, configVars, traceVars, proxyVars,
                   debug_response, rejection_log, combined_online>>

RunMergeResponse ==
    /\ combined_online = NotRun
    /\ combined_online' =
          MergeResponseWithRejections(debug_response, rejection_log.events, 0)
    /\ UNCHANGED <<fileVars, monVars, configVars, traceVars, proxyVars,
                   debug_response, rejection_log, combined>>

MergeInit ==
    /\ file = NoFile
    /\ TraceIdle
    /\ MonIdle
    /\ ProxyIdle
    /\ ConfigDefault
    /\ debug_response \in ApiDocs
    /\ rejection_log \in RejectionLogs
    /\ combined = NotRun
    /\ combined_online = NotRun

MergeNext == RunMergeLogs \/ RunMergeResponse

MergeSpec == MergeInit /\ [][MergeNext]_vars

\* ------------------------------------------------------ the trace tools run
\* parser.py main: the document is parsed, then the tools are called on the
\* trace
RunParseTraceFile ==
    /\ trace_pc = "loaded"
    /\ IF ParseTraceFile(raw_data).exit
       THEN /\ trace_pc' = "exit"
            /\ UNCHANGED trace
       ELSE /\ trace_pc' = "parsed"
            /\ trace' = ParseTraceFile(raw_data).trace
    /\ UNCHANGED <<fileVars, monVars, mergeVars, configVars, proxyVars,
                   raw_data, top_k, step_summary, structured_data,
                   dashboard_data, high_impact, warnings>>

RunGetStepSummary(step) ==
    /\ trace_pc = "parsed"
    /\ step_summary' = Returned(GetStepSummary(trace, step))
    /\ trace_pc' = "done"
    /\ UNCHANGED <<fileVars, monVars, mergeVars, configVars, proxyVars,
                   raw_data, trace, top_k, structured_data, dashboard_data,
                   high_impact, warnings>>

RunExportStructuredJson(k) ==
    /\ trace_pc = "parsed"
    /\ top_k' = k
    /\ structured_data' = Returned(ExportStructuredJson(trace, k))
    /\ trace_pc' = "done"
    /\ UNCHANGED <<fileVars, monVars, mergeVars, configVars, proxyVars,
                   raw_data, trace, step_summary, dashboard_data,
                   high_impact, warnings>>

RunExportForDashboard ==
    /\ trace_pc = "parsed"
    /\ dashboard_data' = Returned(ExportForDashboard(trace))
    /\ trace_pc' = "done"
    /\ UNCHANGED <<fileVars, monVars, mergeVars, configVars, proxyVars,
                   raw_data, trace, top_k, step_summary, structured_data,
                   high_impact, warnings>>

RunGetHighImpactSteps ==
    /\ trace_pc = "parsed"
    /\ high_impact' = Returned(GetHighImpactSteps(trace, Threshold))
    /\ trace_pc' = "done"
    /\ UNCHANGED <<fileVars, monVars, mergeVars, configVars, proxyVars,
                   raw_data, trace, top_k, step_summary, structured_data,
                   dashboard_data, warnings>>

RunValidateTrace ==
    /\ trace_pc = "parsed"
    /\ warnings' = Returned(ValidateTrace(trace))
    /\ trace_pc' = "done"
    /\ UNCHANGED <<fileVars, monVars, mergeVars, configVars, proxyVars,
                   raw_data, trace, top_k, step_summary, structured_data,
                   dashboard_data, high_impact>>

TraceInit ==
    /\ file = NoFile
    /\ MonIdle
    /\ MergeIdle
    /\ ProxyIdle
    /\ ConfigDefault
    /\ \/ ShortDocument(raw_data)
       \/ FullDocument(raw_data)
       \/ PeakedDocument(raw_data)
    /\ trace = EmptyTrace("1")
    /\ trace_pc = "loaded"
    /\ NoOutput

TraceNext ==
    \/ RunParseTraceFile
    \/ \E step \in TraceSteps : RunGetStepSummary(step)
    \/ \E k \in TopKs : RunExportStructuredJson(k)
    \/ RunExportForDashboard
    \/ RunGetHighImpactSteps
    \/ RunValidateTrace

TraceSpec == TraceInit /\ [][TraceNext]_vars

\* --------------------------------------------- what a reader finds in a file
StrictParse(f) == JsonLoads(ReplaceInf(f.content))
RepairedParse(f) == JsonLoads(ContentFixed(ReplaceInf(f.content)))
\* what the entries of the file are to a reader that parses strictly first
\* and repairs only then; nothing when neither parse succeeds
ReadableEvents(f) ==
    IF ~f.exists THEN <<>>
    ELSE IF StrictParse(f).ok THEN StrictParse(f).events
    ELSE IF RepairedParse(f).ok THEN RepairedParse(f).events
    ELSE <<>>

\* ------------------------------------------------------------------ C1
Correlated(req) == req.endpoint = "chat/completions" /\ req.method = "POST"

RespondStep(r) == pc[r] = "collect" /\ pc'[r] = "done"

\* the ways the correlation path fails that show before the response is built:
\* the upstream body is not JSON, the request body is not JSON, the log is
\* missing or does not parse, the merge raises
CorrelationFails(r) ==
    /\ Correlated(request[r])
    /\ \/ ~upstream[r].body.json
       \/ request[r].logprobs = "badjson"
       \/ /\ request[r].logprobs = "yes"
          /\ \/ monitor /\ ~file.exists
             \/ monitor /\ file.exists
                    /\ ~JsonLoads(ContentFixed(ReplaceInf(file.content))).ok
             \/ LogprobsContent(upstream[r].body.doc).raised

\* C1: whenever the correlation path of a request fails (the cases above, or
\* the write of the combined file failing), the response is exactly the
\* upstream's status, headers and body, and nothing is written.
C1_FailureLeavesResponse ==
    [][\A r \in Workers :
          (RespondStep(r) /\ (CorrelationFails(r) \/ outcome'[r].cause # "none"))
              => /\ outcome'[r].response = Original(upstream[r])
                 /\ outdir' = outdir]_vars

\* a request whose combined document could not be written
C1_Witness ==
    \E r \in Workers :
        /\ pc[r] = "done"
        /\ outcome[r].cause = "write_failed"
        /\ outcome[r].combined # NotRun
        /\ outcome[r].response = Original(upstream[r])

\* ------------------------------------------------------------------ C2
\* C2 as stated: a request for which a CombinedDocument was built (and whose
\* write did not fail) has the document in the output directory and gets the
\* upstream response plus the header naming the file, in every configuration.
C2_CombinedPersistedWithHeader ==
    \A r \in Workers :
        (/\ pc[r] = "done"
         /\ outcome[r].combined # NotRun
         /\ outcome[r].cause # "write_failed")
            => \E st \in Stamps :
                  /\ outdir[st] = outcome[r].combined
                  /\ outcome[r].response =
                        WithHeader(Original(upstream[r]), CombinedHeader,
                                   OutputFile(st))

\* ------------------------------------------------------------------ C3
\* the entries of the last entry's task
LatestOf(all_events) ==
    IF all_events = <<>>
    THEN <<>>
    ELSE EventsForTask(all_events, Last(all_events).task_id)

\* C3 as stated: for a chat-completion POST that asked for logprobs the
\* entries are read by the monitor's protocol (substitution, strict parse,
\* repair only when that fails) and a CombinedDocument is built when there
\* are any.
C3_TailMonitorThenCorrelator ==
    [][\A r \in Workers :
          (/\ RespondStep(r)
           /\ Correlated(request[r])
           /\ request[r].logprobs = "yes"
           /\ upstream[r].body.json
           /\ ~LogprobsContent(upstream[r].body.doc).raised
           /\ monitor)
              => /\ outcome'[r].rejection_events = LatestOf(ReadableEvents(file))
                 /\ LatestOf(ReadableEvents(file)) # <<>>
                        => outcome'[r].combined # NotRun]_vars

\* ------------------------------------------------------------------ C4
\* C4 as stated: with requests handled one at a time, every entry attributed
\* to a completed request carries that request's own task.
C4_AttributedToOwnTask ==
    \A r \in Workers :
        pc[r] = "done" =>
            \A i \in 1 .. Len(outcome[r].rejection_events) :
                outcome[r].rejection_events[i].task_id = task[r]

\* ------------------------------------------------------------------ C5
PollStep == mon_pc = "poll" /\ mon_pc' # "poll"

\* C5: a poll whose parse (strict, else repaired) holds an entry of the
\* requested task returns at once with exactly that task's entries in file
\* order; any other poll does not return and goes on to the next iteration.
C5_PollReturnsMatches ==
    [][PollStep =>
        LET matches == EventsForTask(ReadableEvents(file), task_id)
        IN  IF matches # <<>>
            THEN mon_pc' = "done" /\ result' = matches
            ELSE mon_pc' = "sleep"]_vars

\* a call that returned, after an earlier empty poll, through the repaired
\* parse, leaving out another task's entry
C5_Witness ==
    /\ mon_pc = "done"
    /\ result # <<>>
    /\ elapsed > 0
    /\ file.exists
    /\ ~StrictParse(file).ok
    /\ result = EventsForTask(RepairedParse(file).events, task_id)
    /\ Len(result) < EntryCount(file.content)

\* ------------------------------------------------------------------ C6
\* C6: every call of get_events_for_task ends, for every behaviour of the
\* file; it never raises; it ends only on a match or once the timeout has
\* elapsed, and then with a list.
C6_AlwaysTerminates ==
    (mon_pc = "loop") ~>
        (/\ mon_pc = "done"
         /\ result # <<>> \/ (result = <<>> /\ ~LoopTest(elapsed, timeout)))

\* a call that ran into its timeout while the file held only other tasks'
\* entries
C6_Witness ==
    /\ mon_pc = "done"
    /\ result = <<>>
    /\ timeout > 0
    /\ elapsed >= timeout
    /\ file.exists
    /\ EntryCount(file.content) > 0

\* a call that polled a document that is not an object
C6_WitnessNonObject ==
    /\ mon_pc = "sleep"
    /\ file = OnDisk(<<NONOBJ>>)

\* ------------------------------------------------------------------ C7
\* content cut right after a complete entry, with or without the dangling
\* separator and whitespace
CutAfterEntry(f) ==
    /\ f.exists
    /\ f.content # <<>>
    /\ LET b == RStripComma(RStrip(f.content))
       IN  /\ b # <<>>
           /\ IsEntry(Last(b))
           /\ \A i \in 1 .. Len(f.content) :
                  f.content[i].k \in {"hdr", "entry", "comma", "ws"}

\* the fully written file: the writer goes on with the entries of rest and
\* closes the document
RECURSIVE Continue(_, _)
Continue(c, rest) ==
    IF rest = <<>>
    THEN c \o <<WS, RBRACK, WS, RBRACE>>
    ELSE IF Last(RStrip(c)) = COMMA
    THEN Continue(c \o <<rest[1]>>, Tail(rest))
    ELSE Continue(c \o <<COMMA, WS, rest[1]>>, Tail(rest))

\* entries the writer may still append
MoreEntries ==
    {<<>>} \cup {<<Entry(t, MaxEntries, v)>> : t \in Tasks, v \in Logits}

FullyWritten(c) ==
    {Continue(c, rest) :
        rest \in {r \in MoreEntries : Last(RStrip(c)) # COMMA \/ r # <<>>}}

\* C7: for a file cut right after a complete entry, the repaired parse
\* succeeds and its entries equal, one for one, the first entries of the
\* strict parse of every fully written file the cut is a prefix of.
C7_RepairEqualsStrict ==
    CutAfterEntry(file) =>
        LET rp == RepairedParse(file)
        IN  /\ rp.ok
            /\ Len(rp.events) = EntryCount(file.content)
            /\ \A full \in FullyWritten(file.content) :
                  LET sp == JsonLoads(ReplaceInf(full))
                  IN  /\ sp.ok
                      /\ Len(sp.events) >= Len(rp.events)
                      /\ \A i \in 1 .. Len(rp.events) :
                            rp.events[i] = sp.events[i]

\* the monitor returned from a file cut after an entry, a separator and a
\* newline
C7_Witness ==
    /\ mon_pc = "done"
    /\ result # <<>>
    /\ CutAfterEntry(file)
    /\ Len(file.content) >= 2
    /\ Last(file.content) = WS
    /\ file.content[Len(file.content) - 1] = COMMA
    /\ result = EventsForTask(RepairedParse(file).events, task_id)

\* ------------------------------------------------------------------ C8
TornEntry(f) ==
    /\ f.exists
    /\ f.content # <<>>
    /\ Last(f.content) = PART
    /\ EntryCount(f.content) > 0

\* C8 as stated: with the last entry partly written, the repaired parse
\* succeeds and yields every completely written entry.
C8_TornEntryRecovered ==
    TornEntry(file) =>
        /\ RepairedParse(file).ok
        /\ Len(RepairedParse(file).events) = EntryCount(file.content)

\* C8 amended: the repair strips trailing whitespace and separators only,
\* not the partly written entry; with the last entry torn the retried parse
\* fails too, and the poll neither returns nor changes what was found.
C8_TornEntryPollsAgain ==
    TornEntry(file) =>
        /\ ~StrictParse(file).ok
        /\ ~RepairedParse(file).ok
        /\ \A t \in Tasks :
              MonitorPoll(file, t, events) = PollResult(FALSE, events, "none")

\* the monitor polled a file whose last entry was torn and went to sleep
C8_Witness ==
    /\ TornEntry(file)
    /\ mon_pc = "sleep"
    /\ TaskCount(file.content, task_id) > 0

\* ------------------------------------------------------------------ C9
HasEntry(evs, idx) == \E j \in 1 .. Len(evs) : evs[j].step = idx

StepsAsClaimed(out, content, evs) ==
    /\ Len(out.steps) = Len(content)
    /\ \A i \in 1 .. Len(content) :
          /\ out.steps[i].step = i - 1
          /\ out.steps[i].token.id = content[i].id
          /\ out.steps[i].token.text = content[i].token
          /\ out.steps[i].token.logprob = content[i].logprob
          /\ out.steps[i].api_top_logprobs = content[i].top_logprobs
          /\ out.steps[i].rejection_sampling.was_rejected
                <=> HasEntry(evs, i - 1)
    /\ evs = <<>> => out.summary.rejected_steps = 0

Merged(out) == out # NotRun /\ out # MergeRaised

\* C9: both correlators emit one step per position of the API document, in
\* order, numbered from 0, with the token telemetry copied; a step is marked
\* rejected exactly when the log has an entry of that step; with an empty
\* log no step is rejected and rejected_steps is 0.
C9_OneStepPerPosition ==
    /\ Merged(combined) =>
          StepsAsClaimed(combined, debug_response.content, rejection_log.events)
    /\ Merged(combined_online) =>
          StepsAsClaimed(combined_online, debug_response.content,
                         rejection_log.events)

\* two positions, one rejected and one not, and a log entry of a step the
\* API document does not have
C9_Witness ==
    /\ Merged(combined)
    /\ Merged(combined_online)
    /\ Len(combined.steps) = 2
    /\ combined.steps[1].rejection_sampling.was_rejected
    /\ ~combined.steps[2].rejection_sampling.was_rejected
    /\ HasEntry(rejection_log.events, 2)

\* ----------------------------------------------------------------- C10
TelemetryAvailable(log) == log.has_events /\ log.events # <<>>

\* C10 as stated: a step without rejection detail says "grammar-valid on
\* first sample" only when rejection telemetry was there, and "no telemetry
\* available" when the log was empty or missing.
C10_AbsenceReasonsDistinct ==
    Merged(combined) =>
        \A i \in 1 .. Len(combined.steps) :
            ~combined.steps[i].rejection_sampling.was_rejected =>
                combined.steps[i].rejection_sampling.note =
                    IF TelemetryAvailable(rejection_log)
                    THEN OfflineNote
                    ELSE "no telemetry available"

\* ----------------------------------------------------------------- C11
Outputs == {combined, combined_online}

\* positions of the API document the log has an entry for
RejectedPositions(content, evs) ==
    {i \in 1 .. Len(content) : HasEntry(evs, i - 1)}

\* C11: in every combined document total_steps is the number of steps,
\* rejected_steps the number of steps marked rejected, rejection_rate is
\* rejected_steps / total_steps and exactly 0.0 (no division by zero) when
\* there is no step; 0 <= rejected_steps <= total_steps also when the log
\* has entries of steps that are no position of the API document.
C11_SummaryConsistent ==
    \A out \in Outputs :
        Merged(out) =>
            /\ out.summary.total_steps = Len(out.steps)
            /\ out.summary.total_steps = Len(debug_response.content)
            /\ out.summary.rejected_steps =
                  Cardinality({i \in 1 .. Len(out.steps) :
                                  out.steps[i].rejection_sampling.was_rejected})
            /\ out.summary.rejected_steps =
                  Cardinality(RejectedPositions(debug_response.content,
                                                rejection_log.events))
            /\ out.summary.rejected_steps >= 0
            /\ out.summary.rejected_steps <= out.summary.total_steps
            /\ out.summary.rejection_rate[2] > 0
            /\ out.summary.rejection_rate[1] * out.summary.total_steps =
                  out.summary.rejected_steps * out.summary.rejection_rate[2]
            /\ out.summary.total_steps = 0 =>
                  out.summary.rejection_rate = <<0, 1>>

\* a document without positions merged with a log that has entries
C11_Witness ==
    /\ Merged(combined)
    /\ Merged(combined_online)
    /\ combined.summary.total_steps = 0
    /\ combined_online.summary.total_steps = 0
    /\ rejection_log.events # <<>>

\* ----------------------------------------------------------------- C12
IsLastOfStep(evs, j, s) ==
    /\ evs[j].step = s
    /\ \A k \in (j + 1) .. Len(evs) : evs[k].step # s

\* C12: when the log has several entries with the same step, the detail of
\* that step's combined step is that of the last such entry in log order,
\* offline and online.
C12_LastEntryWins ==
    \A out \in Outputs :
        Merged(out) =>
            \A i \in 1 .. Len(out.steps) :
                \A j \in 1 .. Len(rejection_log.events) :
                    IsLastOfStep(rejection_log.events, j, i - 1) =>
                        /\ out.steps[i].rejection_sampling.was_rejected
                        /\ out.steps[i].rejection_sampling.task_id =
                              rejection_log.events[j].task_id
                        /\ out.steps[i].rejection_sampling.pre_masking =
                              rejection_log.events[j].logit

\* two entries of step 0, of different tasks, and a position 0
C12_Witness ==
    /\ Merged(combined)
    /\ Merged(combined_online)
    /\ Len(combined.steps) >= 1
    /\ Len(rejection_log.events) = 2
    /\ rejection_log.events[1].step = 0
    /\ rejection_log.events[2].step = 0
    /\ rejection_log.events[1].task_id # rejection_log.events[2].task_id

\* ----------------------------------------------------------------- C13
\* C13 as stated: the offline and the online correlator produce identical
\* steps (the not-rejected records included) and an identical summary for
\* every API document and every list of entries.
C13_SameStepsAndSummary ==
    (Merged(combined) /\ Merged(combined_online)) =>
        /\ combined.steps = combined_online.steps
        /\ combined.summary = combined_online.summary

\* ----------------------------------------------------------------- C14
\* indices of the trace's filtering events of a step
FilteringAt(tr, step) ==
    {i \in 1 .. Len(tr.events) :
        IsFiltering(tr.events[i]) /\ tr.events[i].step = step}

BeforeCount(e) == Len(e.candidates_before)

\* the filtering events of a step with the largest before-candidate count
Representatives(tr, step) ==
    {tr.events[i] : i \in
        {i \in FilteringAt(tr, step) :
            \A j \in FilteringAt(tr, step) :
                BeforeCount(tr.events[j]) <= BeforeCount(tr.events[i])}}

\* C14: get_step_summary returns as the step's filtering event one whose
\* before-candidate count is the largest among the step's filtering events,
\* whatever their order in the event log, and none only when the step has
\* no filtering event.
C14_LargestSnapshotChosen ==
    step_summary.run =>
        /\ step_summary.value.filtering = NoEvent
              <=> FilteringAt(trace, step_summary.value.step) = {}
        /\ step_summary.value.filtering # NoEvent =>
              step_summary.value.filtering
                  \in Representatives(trace, step_summary.value.step)

\* a step whose larger snapshot comes first and whose smaller one last
C14_Witness ==
    /\ step_summary.run
    /\ step_summary.value.filtering # NoEvent
    /\ \E i, j \in FilteringAt(trace, step_summary.value.step) :
          /\ i < j
          /\ BeforeCount(trace.events[i]) > BeforeCount(trace.events[j])
          /\ \A k \in FilteringAt(trace, step_summary.value.step) : k <= j
    /\ BeforeCount(step_summary.value.filtering) = 2

\* ----------------------------------------------------------------- C15
StepsWithFiltering(tr) ==
    {s \in 0 .. tr.generation_steps : FilteringAt(tr, s) # {}}

NoStepTwice(steps) ==
    \A i, j \in 1 .. Len(steps) : i # j => steps[i] # steps[j]

\* C15 as stated: of a step's filtering events only the one with the
\* largest before-candidate count reaches the outputs: statistics, decision
\* points and high-impact steps count the step once, through that event.
C15_OnlyRepresentativeCounts ==
    /\ dashboard_data.run =>
          /\ \A i, j \in 1 .. Len(dashboard_data.value.decision_points) :
                i # j => dashboard_data.value.decision_points[i].step
                            # dashboard_data.value.decision_points[j].step
          /\ \A i \in 1 .. Len(dashboard_data.value.decision_points) :
                \E e \in Representatives(
                            trace, dashboard_data.value.decision_points[i].step) :
                    dashboard_data.value.decision_points[i].rejections
                        = e.rejected_count
          /\ DOMAIN dashboard_data.value.statistics # {} =>
                dashboard_data.value.statistics.total_filtering_events
                    = Cardinality(StepsWithFiltering(trace))
    /\ high_impact.run => NoStepTwice(high_impact.value)

\* ----------------------------------------------------------------- C16
\* exp(logit - max) / sum of them, for candidate i of a list
RecoveredProb(candidates, i) ==
    LET Top(j) == \A k \in 1 .. Len(candidates) :
                      candidates[k].logit <= candidates[j].logit
        top == candidates[CHOOSE j \in 1 .. Len(candidates) : Top(j)].logit
        Weight(c) == ExpNeg(top - c.logit)
    IN  <<Weight(candidates[i]),
          Sum([j \in 1 .. Len(candidates) |-> Weight(candidates[j])])>>

\* the recovered probability mass of the candidates in before and not in after
RecoveredShift(e) ==
    LET rejected == {i \in 1 .. Len(e.candidates_before) :
                        e.candidates_before[i].token \in RejectedIds(e)}
        Mass(i) == IF i \in rejected
                   THEN RecoveredProb(e.candidates_before, i)[1] ELSE 0
    IN  IF rejected = {} THEN <<0, 1>>
        ELSE <<Sum([i \in 1 .. Len(e.candidates_before) |-> Mass(i)]),
               RecoveredProb(e.candidates_before, 1)[2]>>

\* a number of tenths equals a fraction
TenthsEqual(t, frac) == t * frac[2] = 10 * frac[1]

\* a fraction is over the threshold
OverThreshold(frac) == 10 * frac[1] > Threshold * frac[2]

SameFraction(a, b) == a[1] * b[2] = b[1] * a[2]

FilteringEvents(tr) == SelectSeq(tr.events, IsFiltering)

\* C16 as stated: every probability shift computed for a filtering event -
\* the one compared with the threshold for decision points and high-impact
\* steps, the prob_shift of a decision point, of the timeline and of the
\* statistics - is the recovered probability mass of the ids in before and
\* not in after, never the supplied probability field.
C16_ShiftIsRecoveredMass ==
    /\ dashboard_data.run =>
          /\ LET Over(e) == OverThreshold(RecoveredShift(e))
             IN  StepsOfEvents(dashboard_data.value.decision_points)
                    = StepsOfEvents(SelectSeq(FilteringEvents(trace), Over))
          /\ \A i \in 1 .. Len(dashboard_data.value.decision_points) :
                \E j \in FilteringAt(
                            trace, dashboard_data.value.decision_points[i].step) :
                    TenthsEqual(
                        dashboard_data.value.decision_points[i].prob_shift,
                        RecoveredShift(trace.events[j]))
          /\ \A i \in 1 .. Len(dashboard_data.value.timeline) :
                dashboard_data.value.timeline[i].has_filtering =>
                    \E e \in Representatives(trace, i - 1) :
                        SameFraction(dashboard_data.value.timeline[i].prob_shift,
                                     RecoveredShift(e))
    /\ high_impact.run =>
          LET Over(e) == OverThreshold(RecoveredShift(e))
          IN  high_impact.value
                 = StepsOfEvents(SelectSeq(FilteringEvents(trace), Over))

\* ----------------------------------------------------------------- C17
InUnitInterval(frac) == frac[1] >= 0 /\ frac[1] <= frac[2]

\* C17 as stated: every probability shift reported for a filtering event,
\* whatever its before-set and after-set and their supplied probabilities,
\* lies in [0, 1].
C17_ShiftInUnitInterval ==
    dashboard_data.run =>
        /\ \A i \in 1 .. Len(dashboard_data.value.decision_points) :
              /\ dashboard_data.value.decision_points[i].prob_shift >= 0
              /\ dashboard_data.value.decision_points[i].prob_shift <= 10
        /\ \A i \in 1 .. Len(dashboard_data.value.timeline) :
              dashboard_data.value.timeline[i].has_filtering =>
                  InUnitInterval(dashboard_data.value.timeline[i].prob_shift)
        /\ DOMAIN dashboard_data.value.statistics # {} =>
              InUnitInterval(dashboard_data.value.statistics.max_prob_shift)

\* ----------------------------------------------------------------- C18
\* C18 as stated: for every trace and every requested top_k, each entry of
\* the structured export has len(all_tokens) <= top_k.
C18_AtMostTopK ==
    structured_data.run =>
        \A i \in 1 .. Len(structured_data.value) :
            Len(structured_data.value[i].all_tokens) <= top_k

\* the after-set of the step's snapshot the export used
AfterSet(tr, step) == GetStepSummary(tr, step).filtering.candidates_after

\* ----------------------------------------------------------------- C19
Injective(f) == \A a, b \in DOMAIN f : a # b => f[a] # f[b]

\* all_tokens lists candidates idx[1], idx[2], ... of the after-set, and no
\* candidate left out has a higher recovered probability than a listed one
ListsHighest(all_tokens, after) ==
    \E idx \in [1 .. Len(all_tokens) -> 1 .. Len(after)] :
        /\ Injective(idx)
        /\ \A i \in 1 .. Len(all_tokens) :
              /\ all_tokens[i].token = after[idx[i]].token_str
              /\ all_tokens[i].probability
                    = Round4(RecoveredProb(after, idx[i]))
        /\ \A j \in 1 .. Len(after) :
              (\A i \in 1 .. Len(all_tokens) : idx[i] # j) =>
                  \A i \in 1 .. Len(all_tokens) :
                      RecoveredProb(after, j)[1]
                          <= RecoveredProb(after, idx[i])[1]

\* C19: in every entry of the structured export the probabilities of
\* all_tokens, as written (rounded to 4 decimals), are non-increasing, and
\* all_tokens holds the highest-probability candidates of the step's
\* after-set, top_k of them (all when there are fewer) for a top_k >= 0.
C19_SortedTopK ==
    structured_data.run =>
        \A i \in 1 .. Len(structured_data.value) :
            LET entry == structured_data.value[i]
                after == AfterSet(trace, entry.step)
            IN  /\ \A a \in 1 .. (Len(entry.all_tokens) - 1) :
                      entry.all_tokens[a].probability
                          >= entry.all_tokens[a + 1].probability
                /\ Len(entry.all_tokens) <= Len(after)
                /\ ListsHighest(entry.all_tokens, after)
                /\ top_k >= 0 =>
                      Len(entry.all_tokens)
                          = IF top_k < Len(after) THEN top_k ELSE Len(after)

\* the after-set holds the less probable candidate first, and top_k = 1
C19_Witness ==
    /\ structured_data.run
    /\ top_k = 1
    /\ Len(structured_data.value) = 1
    /\ Len(AfterSet(trace, structured_data.value[1].step)) = 2
    /\ AfterSet(trace, structured_data.value[1].step)[1].logit
          < AfterSet(trace, structured_data.value[1].step)[2].logit
    /\ structured_data.value[1].all_tokens[1].probability = 8808

\* ----------------------------------------------------------------- C20
\* C20: accepted_probability is the recovered probability, rounded to 4
\* decimals, of the accepted token id within the step's complete after-set,
\* whatever top_k; exactly 0.0 when the id is not in the after-set; always
\* in [0, 1].
C20_AcceptedProbability ==
    structured_data.run =>
        \A i \in 1 .. Len(structured_data.value) :
            LET entry == structured_data.value[i]
                after == AfterSet(trace, entry.step)
                accepted == GetStepSummary(trace, entry.step).accepted
            IN  /\ accepted.token \in Ids(after) =>
                      \E j \in 1 .. Len(after) :
                          /\ after[j].token = accepted.token
                          /\ entry.accepted_probability
                                = Round4(RecoveredProb(after, j))
                /\ accepted.token \notin Ids(after) =>
                      entry.accepted_probability = 0
                /\ entry.accepted_probability >= 0
                /\ entry.accepted_probability <= 10000

\* the accepted token is the less probable of two candidates, and top_k = 0
\* leaves all_tokens empty
C20_Witness ==
    /\ structured_data.run
    /\ top_k = 0
    /\ Len(structured_data.value) = 1
    /\ structured_data.value[1].all_tokens = <<>>
    /\ structured_data.value[1].accepted_probability = 1192

\* the accepted token is not in the after-set
C20_WitnessAbsent ==
    /\ structured_data.run
    /\ Len(structured_data.value) = 1
    /\ AfterSet(trace, structured_data.value[1].step) # <<>>
    /\ structured_data.value[1].accepted_probability = 0

\* ------------------------------------------------------------------ C21
\* the written probabilities of an entry's all_tokens, summed
WrittenSum(entry) ==
    Sum([i \in 1 .. Len(entry.all_tokens) |-> entry.all_tokens[i].probability])

StatisticsFields ==
    {"total_filtering_events", "avg_rejections_per_step",
     "max_rejections_in_step", "avg_prob_shift", "max_prob_shift"}

\* the statistics of no filtering events, every value 0
ZeroStatistics ==
    [total_filtering_events |-> 0,
     avg_rejections_per_step |-> <<0, 1>>,
     max_rejections_in_step |-> 0,
     avg_prob_shift |-> [terms |-> <<>>, count |-> 0],
     max_prob_shift |-> <<0, 1>>]

\* C22: the statistics of the dashboard export always carry the same five
\* fields, and for a trace without filtering events every one of them is 0.
C22_StatisticsAlwaysComplete ==
    dashboard_data.run =>
        /\ DOMAIN dashboard_data.value.statistics = StatisticsFields
        /\ SelectSeq(trace.events, IsFiltering) = <<>>
              => dashboard_data.value.statistics = ZeroStatistics

\* ------------------------------------------------------------------ C23
\* listed is the report of the rejected candidates of filtering event e: at
\* most TopRejected of them, each a candidate of before whose id is not in
\* after, none left out more probable than a listed one, the more probable
\* first and equally probable ones in the order of candidates_before
ReportsTopRejected(listed, e) ==
    /\ Len(listed) <= TopRejected
    /\ \E idx \in [1 .. Len(listed) -> 1 .. Len(e.candidates_before)] :
          /\ Injective(idx)
          /\ \A i \in 1 .. Len(listed) :
                /\ listed[i] = e.candidates_before[idx[i]]
                /\ listed[i].token \in RejectedIds(e)
          /\ \A j \in 1 .. Len(e.candidates_before) :
                /\ e.candidates_before[j].token \in RejectedIds(e)
                /\ \A i \in 1 .. Len(listed) : idx[i] # j
                => \A i \in 1 .. Len(listed) :
                      e.candidates_before[j].prob <= listed[i].prob
          /\ \A a, b \in 1 .. Len(listed) :
                a < b => \/ listed[a].prob > listed[b].prob
                         \/ /\ listed[a].prob = listed[b].prob
                            /\ idx[a] < idx[b]

\* C23: the decision points of the dashboard export are the filtering events
\* whose probability shift (the recovered mass of the rejected ids) is
\* strictly over the threshold, in event order, and each report lists the
\* top rejected candidates of its event.
C23_DecisionPointsOverThreshold ==
    dashboard_data.run =>
        /\ LET Over(e) == OverThreshold(RecoveredShift(e))
           IN  StepsOfEvents(dashboard_data.value.decision_points)
                  = StepsOfEvents(SelectSeq(FilteringEvents(trace), Over))
        /\ \A i \in 1 .. Len(dashboard_data.value.decision_points) :
              \E j \in FilteringAt(
                          trace, dashboard_data.value.decision_points[i].step) :
                  ReportsTopRejected(
                      dashboard_data.value.decision_points[i].top_rejected,
                      trace.events[j])

\* ------------------------------------------------------------------ C24
\* the document has been ingested, or the ingestion has aborted
Ingested == trace_pc \in {"parsed", "done", "exit"}

KnownType(raw_event) == raw_event.type \in {"token_filtering", "token_accepted"}

\* event e of the log is raw event r of the document
EventOf(e, r) ==
    /\ e.type = r.type
    /\ e.step = r.step
    /\ IsFiltering(e) =>
          /\ e.candidates_before = r.candidates_before
          /\ e.candidates_after = r.candidates_after
          /\ e.rejected_count = r.rejected_count
    /\ IsAccepted(e) => e.token = r.token

\* the event log holds the document's events of known type, in their order
LogOfKnownEvents(tr, raw_events) ==
    LET known == SelectSeq(raw_events, KnownType)
    IN  /\ Len(tr.events) = Len(known)
        /\ \A i \in 1 .. Len(known) : EventOf(tr.events[i], known[i])

\* C24: ingestion aborts exactly when the document has no events array; a
\* missing version tag gives version "unknown" and events of unknown type
\* are skipped, so the log holds the filtering and accepted events of the
\* document, in document order.
C24_AbortsOnlyWithoutEvents ==
    Ingested =>
        /\ trace_pc = "exit" <=> "events" \notin DOMAIN raw_data
        /\ trace_pc # "exit" =>
              /\ "trace_version" \notin DOMAIN raw_data
                    => trace.trace_version = "unknown"
              /\ "trace_version" \in DOMAIN raw_data
                    => trace.trace_version = raw_data.trace_version
              /\ LogOfKnownEvents(trace, raw_data.events)

\* a document without version tag and with an event of unknown type between
\* two known events has been ingested
C24_Witness ==
    /\ trace_pc = "parsed"
    /\ "trace_version" \notin DOMAIN raw_data
    /\ Len(raw_data.events) = 3
    /\ ~KnownType(raw_data.events[2])
    /\ Len(trace.events) = 2
    /\ IsFiltering(trace.events[1])
    /\ IsAccepted(trace.events[2])
    /\ trace.trace_version = "unknown"

\* ------------------------------------------------------------------ C25
\* C25: after ingestion the derived fields agree with the event log:
\* generation_steps is the largest step of the log's events (0 for an empty
\* log), total_rejections the sum of rejected_count over the filtering
\* events, generated_tokens the accepted events' texts in event order.
C25_DerivedFieldsAgree ==
    trace_pc \in {"parsed", "done"} =>
        /\ \A i \in 1 .. Len(trace.events) :
              trace.events[i].step <= trace.generation_steps
        /\ IF trace.events = <<>> THEN trace.generation_steps = 0
           ELSE \E i \in 1 .. Len(trace.events) :
                    trace.events[i].step = trace.generation_steps
        /\ LET filtering == SelectSeq(trace.events, IsFiltering)
           IN  trace.total_rejections
                  = Sum([i \in 1 .. Len(filtering) |->
                            filtering[i].rejected_count])
        /\ LET accepted == SelectSeq(trace.events, IsAccepted)
           IN  trace.generated_tokens
                  = [i \in 1 .. Len(accepted) |-> accepted[i].token_str]

\* a log whose last event is not of the largest step, with rejections and
\* two accepted tokens
C25_Witness ==
    /\ trace_pc = "parsed"
    /\ Len(trace.events) = 3
    /\ trace.events[1].step = 1
    /\ trace.events[3].step = 0
    /\ trace.generation_steps = 1
    /\ trace.total_rejections > 0
    /\ Len(trace.generated_tokens) = 2
    /\ trace.generated_tokens[1] # trace.generated_tokens[2]

\* ------------------------------------------------------------------ C26
\* the recorded count of filtering event e is not the number of ids in
\* before and not in after
CountDiverges(e) == e.rejected_count # Cardinality(RejectedIds(e))

\* the warning validation gives for such an event
DivergenceWarning(step) ==
    [step |-> step,
     warning |-> "rejected_count differs from the rejected ids"]

\* C26: the rejected_count a document records reaches the exports as it was
\* written (the metadata's total, the timeline, the decision points), and
\* validation warns of every filtering event whose recorded count is not the
\* number of ids in before and not in after.
C26_DivergenceKeptAndReported ==
    /\ dashboard_data.run =>
          /\ LET filtering == SelectSeq(raw_data.events, IsFiltering)
             IN  dashboard_data.value.metadata.total_rejections
                    = Sum([i \in 1 .. Len(filtering) |->
                              filtering[i].rejected_count])
          /\ \A i \in 1 .. Len(dashboard_data.value.timeline) :
                dashboard_data.value.timeline[i].has_filtering =>
                    \E e \in Representatives(trace, i - 1) :
                        dashboard_data.value.timeline[i].rejected_count
                            = e.rejected_count
          /\ \A i \in 1 .. Len(dashboard_data.value.decision_points) :
                \E j \in FilteringAt(
                            trace, dashboard_data.value.decision_points[i].step) :
                    dashboard_data.value.decision_points[i].rejections
                        = trace.events[j].rejected_count
    /\ warnings.run =>
          \A i \in 1 .. Len(trace.events) :
              IsFiltering(trace.events[i]) /\ CountDiverges(trace.events[i])
                  => \E w \in 1 .. Len(warnings.value) :
                        warnings.value[w] = DivergenceWarning(trace.events[i].step)

\* ------------------------------------------------------------------ C27
\* thread r reads the log for a correlated request that asked for logprobs
ReadsLog(r) ==
    /\ RespondStep(r)
    /\ Correlated(request[r])
    /\ request[r].logprobs = "yes"
    /\ upstream[r].body.json
    /\ monitor
    /\ file.exists
    /\ RepairedParse(file).ok
    /\ RepairedParse(file).events # <<>>

\* C27: the entries the proxy attributes to a request are all the entries
\* of the log that carry the task_id of the log's last entry at the moment
\* of reading, whichever request's task that is; with two requests in flight
\* there is an interleaving in which a request gets the entries written for
\* the other request's task (C27_Witness).
C27_AttributesLastTask ==
    [][\A r \in DOMAIN pc :
          ReadsLog(r) =>
              LET entries == RepairedParse(file).events
                  OfLast(e) == e.task_id = entries[Len(entries)].task_id
              IN  outcome'[r].rejection_events = SelectSeq(entries, OfLast)]_vars

\* thread r has answered with entries, all written for the task of the other
\* request, which is still in flight
C27_Witness ==
    \E r, o \in DOMAIN pc :
        /\ r # o
        /\ pc[r] = "done"
        /\ InFlight(o)
        /\ task[r] # 0
        /\ task[o] # 0
        /\ task[o] # task[r]
        /\ Correlated(request[r])
        /\ Correlated(request[o])
        /\ outcome[r].rejection_events # <<>>
        /\ \A i \in 1 .. Len(outcome[r].rejection_events) :
              outcome[r].rejection_events[i].task_id = task[o]

\* ------------------------------------------------------------------ C28
\* get_events_for_task returns because the loop test fails
TimeoutReturn == mon_pc = "loop" /\ mon_pc' = "done"

\* C28: a return on timeout gives the empty list, whatever entries of other
\* tasks the polls have seen; a non-empty list is returned only from inside
\* a poll; with a timeout of 0 or less the file is never read.
C28_TimeoutReturnsEmpty ==
    [][/\ TimeoutReturn => result' = <<>>
       /\ mon_pc # "done" /\ mon_pc' = "done" /\ result' # <<>>
             => mon_pc = "poll"
       /\ mon_pc' = "poll" => timeout' > 0]_vars

\* the call has timed out after polling, and the log holds entries of
\* another task only
C28_Witness ==
    /\ mon_pc = "done"
    /\ timeout > 0
    /\ elapsed >= timeout
    /\ result = <<>>
    /\ ReadableEvents(file) # <<>>
    /\ \A i \in 1 .. Len(ReadableEvents(file)) :
          ReadableEvents(file)[i].task_id # task_id

====
